---- MODULE Spec2Model ----
(***************************************************************************)
(* gifclip: dialogue-anchored clip resolution.                             *)
(*                                                                         *)
(* The model follows src/src/srt.rs (parse_srt, parse_srt_time,            *)
(* find_dialogue) and the dialogue-mode part of main in src/src/main.rs.   *)
(* Text is a sequence of one-character strings, so that substring search,  *)
(* case folding, line splitting and the timestamp pattern are computed on  *)
(* characters as the code computes them.  Times are whole milliseconds.    *)
(***************************************************************************)
EXTENDS Integers, Sequences, FiniteSets, TLC

VARIABLES
    input,        \* the input: its kind ("youtube", "url", "file") and whether the
                  \* video can be had ("ok", "missing")
    detected,     \* the subtitles there are besides --subs: those yt-dlp writes,
                  \* those embedded in the video, those in a file next to it
    sub,          \* sub_path of main: "ok" (a readable file), "unreadable", "none"
    content,      \* the text of the subtitle file, as fs::read_to_string returns it
    cli,          \* the parsed command line: start, end, subs, from, to, pad,
                  \* pad_before, pad_after, no_subs
    pc,           \* position of main; "error" where it returned an error before
                  \* the encoder ran, "failed" where the encoder failed
    entries,      \* Vec<SubtitleEntry> returned by parse_srt
    from_entry,   \* index into entries of the matched `from` entry, 0 before
    to_entry,     \* index into entries of the matched `to` entry, 0 before
    range,        \* (start, end, default_pad) of main, <<>> before
    start_secs,   \* start_padded
    end_secs,     \* end_padded
    duration,     \* end_secs - start_secs, handed to the encoder
    ffmpeg,       \* the call of the encoder: None before, Some(its arguments) after
    err           \* the error main ends with, <<>> while there is none

vars == <<input, detected, sub, content, cli, pc, entries, from_entry, to_entry, range,
          start_secs, end_secs, duration, ffmpeg, err>>

(***************************************************************************)
(* Option<T>: None is the empty tuple, Some(x) the one-element tuple.      *)
(***************************************************************************)
None == <<>>

Some(x) == <<x>>

IsSome(o) == Len(o) = 1

\* Option::or
OptOr(a, b) == IF IsSome(a) THEN a ELSE b

\* Option::unwrap_or
UnwrapOr(a, d) == IF IsSome(a) THEN a[1] ELSE d

(***************************************************************************)
(* Characters and strings.                                                 *)
(***************************************************************************)
\* char::is_whitespace on the characters of the model
IsWhite(c) == c \in {" ", "\t", "\n", "\r"}

\* char::to_lowercase on the characters of the model
LowerChar(c) == CASE c = "A" -> "a" [] c = "B" -> "b" [] OTHER -> c

\* str::to_lowercase
to_lowercase(s) == [i \in 1..Len(s) |-> LowerChar(s[i])]

\* the least element of a non-empty set of integers
Least(S) == CHOOSE x \in S : \A y \in S : x <= y

\* the greatest element of a non-empty set of integers
Greatest(S) == CHOOSE x \in S : \A y \in S : x >= y

\* the 0-based offsets at which pat occurs in s
Offsets(s, pat) ==
    {i \in 0..(Len(s) - Len(pat)) :
        /\ Len(pat) = 0 \/ s[i + 1] = pat[1]
        /\ SubSeq(s, i + 1, i + Len(pat)) = pat}

\* str::contains
contains(s, pat) == Offsets(s, pat) # {}

\* str::find: the least 0-based offset of pat in s, -1 for Option::None
find(s, pat) == IF contains(s, pat) THEN Least(Offsets(s, pat)) ELSE -1

\* &s[from..], from a 0-based offset
SliceFrom(s, from) == SubSeq(s, from + 1, Len(s))

\* the 1-based positions of the characters of s that are not whitespace
NonWhite(s) == {i \in 1..Len(s) : ~IsWhite(s[i])}

\* str::trim_start
TrimStart(s) ==
    IF NonWhite(s) = {} THEN <<>> ELSE SubSeq(s, Least(NonWhite(s)), Len(s))

\* str::trim
trim(s) ==
    IF NonWhite(s) = {} THEN <<>>
    ELSE SubSeq(s, Least(NonWhite(s)), Greatest(NonWhite(s)))

\* the length of the first word of s, which starts with no whitespace
WordLen(s) == Least({i \in 0..Len(s) : i = Len(s) \/ IsWhite(s[i + 1])})

\* str::split_whitespace, collected: the maximal runs of non-whitespace
RECURSIVE split_whitespace(_)
split_whitespace(s) ==
    LET t == TrimStart(s)
    IN  IF Len(t) = 0 THEN <<>>
        ELSE <<SubSeq(t, 1, WordLen(t))>> \o split_whitespace(SliceFrom(t, WordLen(t)))

(***************************************************************************)
(* find_dialogue (srt.rs 82-141).  The result is Ok(index of the entry)    *)
(* or Err(message); the message is the literal prefix and the query.       *)
(***************************************************************************)
Ok(i) == [ok |-> TRUE, idx |-> i]

\* an error message: its literal text and the value formatted into it
Msg(text, arg) == [text |-> text, arg |-> arg]

\* bail!("Could not find dialogue: \"{}\"", query)
NotFound(query) == [ok |-> FALSE, msg |-> Msg("Could not find dialogue: ", query)]

\* ExactScan comparing the text as it is written, not lowercased
RECURSIVE ExactScanCaseSensitive(_, _, _)
ExactScanCaseSensitive(es, query_lower, i) ==
    IF i > Len(es) THEN 0
    ELSE IF contains(es[i].text, query_lower) THEN i
    ELSE ExactScanCaseSensitive(es, query_lower, i + 1)

\* First try: the scan of lines 87-91, from index i; 0 when it finds nothing
RECURSIVE ExactScan(_, _, _)
ExactScan(es, query_lower, i) ==
    IF i > Len(es) THEN 0
    ELSE IF contains(to_lowercase(es[i].text), query_lower) THEN i
    ELSE ExactScan(es, query_lower, i + 1)

\* the inner loop searching the next word from the start of the match before
RECURSIVE WordsInOrderOverlapping(_, _, _, _)
WordsInOrderOverlapping(text_lower, query_words, k, last_pos) ==
    IF k > Len(query_words) THEN TRUE
    ELSE LET pos == find(SliceFrom(text_lower, last_pos), query_words[k])
         IN  IF pos = -1 THEN FALSE
             ELSE WordsInOrderOverlapping(text_lower, query_words, k + 1,
                                          last_pos + pos)

\* the inner loop of lines 99-106: the words from index k on, searched in
\* text_lower from last_pos
RECURSIVE WordsInOrder(_, _, _, _)
WordsInOrder(text_lower, query_words, k, last_pos) ==
    IF k > Len(query_words) THEN TRUE
    ELSE LET pos == find(SliceFrom(text_lower, last_pos), query_words[k])
         IN  IF pos = -1 THEN FALSE
             ELSE WordsInOrder(text_lower, query_words, k + 1,
                               last_pos + pos + Len(query_words[k]))

\* the second scan passing over every entry when the query has no word
RECURSIVE OrderedScanSomeWord(_, _, _)
OrderedScanSomeWord(es, query_words, i) ==
    IF i > Len(es) \/ Len(query_words) = 0 THEN 0
    ELSE IF WordsInOrder(to_lowercase(es[i].text), query_words, 1, 0) THEN i
    ELSE OrderedScanSomeWord(es, query_words, i + 1)

\* Second try: the scan of lines 94-111
RECURSIVE OrderedScan(_, _, _)
OrderedScan(es, query_words, i) ==
    IF i > Len(es) THEN 0
    ELSE IF WordsInOrder(to_lowercase(es[i].text), query_words, 1, 0) THEN i
    ELSE OrderedScan(es, query_words, i + 1)

\* lines 118-121: the number of query words (with repetitions) the text contains
RECURSIVE CountMatches(_, _, _)
CountMatches(text_lower, query_words, k) ==
    IF k > Len(query_words) THEN 0
    ELSE (IF contains(text_lower, query_words[k]) THEN 1 ELSE 0)
         + CountMatches(text_lower, query_words, k + 1)

\* the third loop keeping an entry that holds no word of the query
RECURSIVE FuzzyScanAnyCount(_, _, _, _)
FuzzyScanAnyCount(es, query_words, i, best) ==
    IF i > Len(es) THEN best
    ELSE LET matches == CountMatches(to_lowercase(es[i].text), query_words, 1)
         IN  FuzzyScanAnyCount(es, query_words, i + 1,
                               IF best[1] = 0 \/ matches > best[2]
                               THEN <<i, matches>>
                               ELSE best)

\* the third loop letting a later entry with an equal count replace the best
RECURSIVE FuzzyScanLastWins(_, _, _, _)
FuzzyScanLastWins(es, query_words, i, best) ==
    IF i > Len(es) THEN best
    ELSE LET matches == CountMatches(to_lowercase(es[i].text), query_words, 1)
         IN  FuzzyScanLastWins(es, query_words, i + 1,
                               IF matches > 0 /\ (best[1] = 0 \/ matches >= best[2])
                               THEN <<i, matches>>
                               ELSE best)

\* Third try: the loop of lines 116-132; best is <<index, count>>, <<0, 0>> for None
RECURSIVE FuzzyScan(_, _, _, _)
FuzzyScan(es, query_words, i, best) ==
    IF i > Len(es) THEN best
    ELSE LET matches == CountMatches(to_lowercase(es[i].text), query_words, 1)
         IN  FuzzyScan(es, query_words, i + 1,
                       IF matches > 0 /\ (best[1] = 0 \/ matches > best[2])
                       THEN <<i, matches>>
                       ELSE best)

\* lines 134-138: the best match is accepted with at least half of the words
FuzzyAccept(best, query_words) ==
    best[1] # 0 /\ best[2] >= Len(query_words) \div 2

\* find_dialogue trying the words in order before the exact substring
FindDialogueWordsFirst(es, query) ==
    LET query_lower == to_lowercase(query)
        query_words == split_whitespace(query_lower)
        exact       == ExactScan(es, query_lower, 1)
        ordered     == OrderedScan(es, query_words, 1)
        best        == FuzzyScan(es, query_words, 1, <<0, 0>>)
    IN  IF ordered # 0 THEN Ok(ordered)
        ELSE IF exact # 0 THEN Ok(exact)
        ELSE IF FuzzyAccept(best, query_words) THEN Ok(best[1])
        ELSE NotFound(query)

\* find_dialogue reporting the lowercased query
FindDialogueLowerMessage(es, query) ==
    LET query_lower == to_lowercase(query)
        query_words == split_whitespace(query_lower)
        exact       == ExactScan(es, query_lower, 1)
        ordered     == OrderedScan(es, query_words, 1)
        best        == FuzzyScan(es, query_words, 1, <<0, 0>>)
    IN  IF exact # 0 THEN Ok(exact)
        ELSE IF ordered # 0 THEN Ok(ordered)
        ELSE IF FuzzyAccept(best, query_words) THEN Ok(best[1])
        ELSE NotFound(query_lower)

find_dialogue(es, query) ==
    LET query_lower == to_lowercase(query)
        query_words == split_whitespace(query_lower)
        exact       == ExactScan(es, query_lower, 1)
        ordered     == OrderedScan(es, query_words, 1)
        best        == FuzzyScan(es, query_words, 1, <<0, 0>>)
    IN  IF exact # 0 THEN Ok(exact)
        ELSE IF ordered # 0 THEN Ok(ordered)
        ELSE IF FuzzyAccept(best, query_words) THEN Ok(best[1])
        ELSE NotFound(query)

(***************************************************************************)
(* parse_srt (srt.rs 13-70) and parse_srt_time (srt.rs 72-79).             *)
(***************************************************************************)
\* a decimal digit that is not ASCII: the pattern's \d accepts it, parse() does not
NonAsciiDigit == "U+0663"

AsciiDigits == <<"0", "1", "2", "3", "4", "5", "6", "7", "8", "9">>

IsAsciiDigit(c) == \E d \in 1..10 : AsciiDigits[d] = c

\* \d of the regex crate (Unicode-aware)
IsDigit(c) == IsAsciiDigit(c) \/ c = NonAsciiDigit

DigitVal(c) == (CHOOSE d \in 1..10 : AsciiDigits[d] = c) - 1

RECURSIVE DecimalVal(_)
DecimalVal(s) ==
    IF Len(s) = 0 THEN 0
    ELSE 10 * DecimalVal(SubSeq(s, 1, Len(s) - 1)) + DigitVal(s[Len(s)])

\* str::parse::<f64>().unwrap_or(0.0) on a captured group of digits
ParseOrZero(s) ==
    IF \A i \in 1..Len(s) : IsAsciiDigit(s[i]) THEN DecimalVal(s) ELSE 0

\* parse_srt_time leaving the milliseconds out
ParseSrtTimeNoMillis(hours, mins, secs, millis) ==
    ParseOrZero(hours) * 3600000 + ParseOrZero(mins) * 60000
        + ParseOrZero(secs) * 1000

\* h * 3600.0 + m * 60.0 + s + ms / 1000.0, in milliseconds
parse_srt_time(hours, mins, secs, millis) ==
    ParseOrZero(hours) * 3600000 + ParseOrZero(mins) * 60000
        + ParseOrZero(secs) * 1000 + ParseOrZero(millis)

\* str::split(sep): the pieces between non-overlapping separators, left to right
RECURSIVE split(_, _)
split(s, sep) ==
    LET p == find(s, sep)
    IN  IF p = -1 THEN <<s>>
        ELSE <<SubSeq(s, 1, p)>> \o split(SliceFrom(s, p + Len(sep)), sep)

\* a line of str::lines without the "\r" of its "\r\n" ending
StripCr(line) ==
    IF Len(line) > 0 /\ line[Len(line)] = "\r"
    THEN SubSeq(line, 1, Len(line) - 1)
    ELSE line

\* str::lines: each line ends at "\n" or "\r\n"; the last needs no ending, and an
\* ending starts no empty last line
RECURSIVE lines(_)
lines(s) ==
    LET p == find(s, <<"\n">>)
    IN  IF Len(s) = 0 THEN <<>>
        ELSE IF p = -1 THEN <<s>>
        ELSE <<StripCr(SubSeq(s, 1, p))>> \o lines(SliceFrom(s, p + 1))

\* (\d{2}):(\d{2}):(\d{2})[,.](\d{3}) at the 1-based position p of s
TimecodeAt(s, p) ==
    /\ p + 11 <= Len(s)
    /\ \A k \in {0, 1, 3, 4, 6, 7, 9, 10, 11} : IsDigit(s[p + k])
    /\ s[p + 2] = ":" /\ s[p + 5] = ":"
    /\ s[p + 8] \in {",", "."}

\* \s*: the first position at or after p that holds no whitespace
SkipWhite(s, p) ==
    Least({q \in p..(Len(s) + 1) : q > Len(s) \/ ~IsWhite(s[q])})

\* the position of "-->" after the first timecode and its whitespace
ArrowPos(s, p) == SkipWhite(s, p + 12)

\* the position of the second timecode
SecondPos(s, p) == SkipWhite(s, ArrowPos(s, p) + 3)

\* time_re matches s from position p
TimeReAt(s, p) ==
    /\ TimecodeAt(s, p)
    /\ ArrowPos(s, p) + 2 <= Len(s)
    /\ SubSeq(s, ArrowPos(s, p), ArrowPos(s, p) + 2) = <<"-", "-", ">">>
    /\ TimecodeAt(s, SecondPos(s, p))

\* time_re.is_match(line): the pattern is not anchored
is_match(line) == \E p \in 1..Len(line) : TimeReAt(line, p)

\* the four groups of the timecode at position p
Groups(s, p) ==
    <<SubSeq(s, p, p + 1), SubSeq(s, p + 3, p + 4),
      SubSeq(s, p + 6, p + 7), SubSeq(s, p + 9, p + 11)>>

\* time_re.captures(line): the eight groups of the leftmost match
captures(line) ==
    LET p == CHOOSE q \in 1..Len(line) :
                 /\ TimeReAt(line, q)
                 /\ \A r \in 1..(q - 1) : ~TimeReAt(line, r)
    IN  Groups(line, p) \o Groups(line, SecondPos(line, p))

\* lines 33-39: the index of the first line that matches, 0 when none does
RECURSIVE TimestampLine(_, _)
TimestampLine(ls, i) ==
    IF i > Len(ls) THEN 0
    ELSE IF is_match(ls[i]) THEN i
    ELSE TimestampLine(ls, i + 1)

\* text_start one line too far
TextStartSkipping(ts) == ts + 2

\* text_start = i + 1 of line 36, as the 1-based index of the first text line
\* after the timing line at the 1-based index ts
TextStart(ts) == ts + 1

\* [T]::join(" ")
RECURSIVE join(_)
join(ls) ==
    IF Len(ls) = 0 THEN <<>>
    ELSE IF Len(ls) = 1 THEN ls[1]
    ELSE ls[1] \o <<" ">> \o join(Tail(ls))

\* str::replace(pat, ""): non-overlapping occurrences removed, left to right
RECURSIVE replace(_, _)
replace(s, pat) ==
    LET p == find(s, pat)
    IN  IF p = -1 THEN s
        ELSE SubSeq(s, 1, p) \o replace(SliceFrom(s, p + Len(pat)), pat)

\* the six literals of lines 55-60
EmphasisTags ==
    {<<"<", "i", ">">>, <<"<", "/", "i", ">">>, <<"<", "b", ">">>,
     <<"<", "/", "b", ">">>, <<"<", "u", ">">>, <<"<", "/", "u", ">">>}

\* the chain of replace calls of lines 55-60
StripTags(s) ==
    replace(replace(replace(replace(replace(replace(s,
        <<"<", "i", ">">>), <<"<", "/", "i", ">">>),
        <<"<", "b", ">">>), <<"<", "/", "b", ">">>),
        <<"<", "u", ">">>), <<"<", "/", "u", ">">>)

\* the caption left untrimmed
CaptionTextUntrimmed(text_lines) == StripTags(join(text_lines))

\* lines 53-62
CaptionText(text_lines) == trim(StripTags(join(text_lines)))

Pushed(es) == [status |-> "ok", entries |-> es]

Panic == [status |-> "panic", entries |-> <<>>]

\* the body of the loop of lines 23-67 on one block: the entries it pushes, or
\* a panic where the slice lines[text_start..] starts past the end of lines
ParseBlock(block) ==
    LET ls == lines(block)
        ts == TimestampLine(ls, 1)
    IN  IF Len(ls) < 3 THEN Pushed(<<>>)
        ELSE IF ts = 0 THEN Pushed(<<>>)
        ELSE IF TextStart(ts) > Len(ls) + 1 THEN Panic
        ELSE LET caps == captures(ls[ts])
                 text == CaptionText(SubSeq(ls, TextStart(ts), Len(ls)))
             IN  IF Len(text) > 0
                 THEN Pushed(<<[start |-> parse_srt_time(caps[1], caps[2], caps[3], caps[4]),
                                end   |-> parse_srt_time(caps[5], caps[6], caps[7], caps[8]),
                                text  |-> text]>>)
                 ELSE Pushed(<<>>)

\* the loop of lines 23-67 over the blocks from index i on
RECURSIVE ParseBlocks(_, _)
ParseBlocks(blocks, i) ==
    IF i > Len(blocks) THEN Pushed(<<>>)
    ELSE LET one  == ParseBlock(blocks[i])
             rest == ParseBlocks(blocks, i + 1)
         IN  IF one.status = "panic" \/ rest.status = "panic"
             THEN Panic
             ELSE Pushed(one.entries \o rest.entries)

\* parse_srt on the text of a readable file
parse_srt(text) == ParseBlocks(split(text, <<"\n", "\n">>), 1)

(***************************************************************************)
(* main, dialogue mode (main.rs 265-320).                                  *)
(***************************************************************************)
\* Result::with_context: the context is put in front of the error's chain
WithContext(context, chain) == <<context>> \o chain

\* the default padding of range mode (0.5 s) and of single-quote mode (2.0 s)
DefaultPadRange == 500

DefaultPadSingle == 2000

NoRange == [start |-> 0, end |-> 0, default_pad |-> 0]

\* no clamp at zero
NoClamp(x) == x

\* f64::max(0.0)
Max0(x) == IF x < 0 THEN 0 ELSE x

\* the ordering check with <= for <
InvertedOrTouching(from_e, to_e) == to_e.end <= from_e.start

\* the ordering check of line 280
Inverted(from_e, to_e) == to_e.end < from_e.start

\* lines 290-291
PadBefore(c, default_pad) == UnwrapOr(OptOr(c.pad_before, c.pad), default_pad)

\* the padding after, taken from --pad-before
PadAfterFromBefore(c, default_pad) == UnwrapOr(OptOr(c.pad_before, c.pad), default_pad)

PadAfter(c, default_pad) == UnwrapOr(OptOr(c.pad_after, c.pad), default_pad)

\* lines 292-293
StartPadded(start, pad_before) == Max0(start - pad_before)

EndPadded(end, pad_after) == end + pad_after

\* lines 168: yt-dlp is asked for subtitles
need_subs(c) == ~IsSome(c.subs) /\ (IsSome(c.from) \/ ~c.no_subs)

\* the subtitles main finds by itself, lines 201, 221-231 and 247-259: those
\* yt-dlp wrote where it was asked to, those embedded in the video, or for a
\* local file those in a file next to it
AutoSubs(c, kind, fnd) ==
    IF kind = "youtube"
    THEN IF need_subs(c) THEN fnd.downloaded ELSE "none"
    ELSE IF c.no_subs THEN "none"
    ELSE IF kind = "url" THEN fnd.embedded
    ELSE IF fnd.embedded # "none" THEN fnd.embedded
    ELSE fnd.adjacent

\* the error of lines 192-195, 213 and 237-239 where the video cannot be had
NoVideo(kind) ==
    IF kind = "youtube" THEN <<Msg("yt-dlp failed to download video", <<>>)>>
    ELSE IF kind = "url" THEN <<Msg("Failed to download ", <<>>)>>
    ELSE <<Msg("Input file does not exist: ", <<>>)>>

\* lines 160-262: the video and sub_path; --subs overrides what main finds, and
\* resolve_subs_input fails where the file --subs names is not there
ResolveSubs ==
    /\ pc = "input"
    /\ IF input.video = "missing"
       THEN /\ err' = NoVideo(input.kind)
            /\ pc' = "error"
            /\ UNCHANGED sub
       ELSE IF IsSome(cli.subs) /\ cli.subs[1] = "missing"
       THEN /\ err' = <<Msg("Subtitle file does not exist: ", <<>>)>>
            /\ pc' = "error"
            /\ UNCHANGED sub
       ELSE /\ sub' = IF IsSome(cli.subs) THEN cli.subs[1]
                      ELSE AutoSubs(cli, input.kind, detected)
            /\ pc' = "start"
            /\ UNCHANGED err
    /\ UNCHANGED <<input, detected, ffmpeg, content, cli, entries, from_entry, to_entry,
                   range, start_secs, end_secs, duration>>

\* lines 267-270: the subtitle file is required, read and parsed
LoadSubs ==
    /\ pc = "start"
    /\ IsSome(cli.from)
    /\ IF sub = "none"
       THEN /\ err' = <<Msg("Subtitles required for dialogue search but none found", <<>>)>>
            /\ pc' = "error"
            /\ UNCHANGED entries
       ELSE IF sub = "unreadable"
       THEN /\ err' = <<Msg("Failed to read subtitle file: ", <<>>)>>
            /\ pc' = "error"
            /\ UNCHANGED entries
       ELSE LET parsed == parse_srt(content)
            IN  /\ pc' = IF parsed.status = "ok" THEN "find_from" ELSE "panic"
                /\ entries' = parsed.entries
                /\ UNCHANGED err
    /\ UNCHANGED <<input, detected, ffmpeg, sub, content, cli, from_entry, to_entry, range,
                   start_secs, end_secs, duration>>

\* lines 272-273
FindFrom ==
    /\ pc = "find_from"
    /\ LET found == find_dialogue(entries, cli.from[1])
       IN  IF found.ok
           THEN /\ from_entry' = found.idx
                /\ pc' = "mode"
                /\ UNCHANGED err
           ELSE /\ err' = WithContext(Msg("Could not find starting dialogue: ", cli.from[1]),
                                      <<found.msg>>)
                /\ pc' = "error"
                /\ UNCHANGED from_entry
    /\ UNCHANGED <<input, detected, ffmpeg, sub, content, cli, entries, to_entry, range,
                   start_secs, end_secs, duration>>

\* the lookup of the ending dialogue falling back on the single quote where it
\* finds nothing
FindToFallingBack ==
    /\ pc = "mode"
    /\ IsSome(cli.to)
    /\ LET found == find_dialogue(entries, cli.to[1])
       IN  IF found.ok
           THEN /\ to_entry' = found.idx
                /\ pc' = "check"
                /\ UNCHANGED range
           ELSE /\ range' = [start |-> entries[from_entry].start,
                             end |-> entries[from_entry].end,
                             default_pad |-> DefaultPadSingle]
                /\ pc' = "pad"
                /\ UNCHANGED to_entry
    /\ UNCHANGED <<input, detected, ffmpeg, sub, content, cli, entries, from_entry,
                   start_secs, end_secs, duration, err>>

\* lines 275-278: range mode, the lookup of the ending dialogue
FindTo ==
    /\ pc = "mode"
    /\ IsSome(cli.to)
    /\ LET found == find_dialogue(entries, cli.to[1])
       IN  IF found.ok
           THEN /\ to_entry' = found.idx
                /\ pc' = "check"
                /\ UNCHANGED err
           ELSE /\ err' = WithContext(Msg("Could not find ending dialogue: ", cli.to[1]),
                                      <<found.msg>>)
                /\ pc' = "error"
                /\ UNCHANGED to_entry
    /\ UNCHANGED <<input, detected, ffmpeg, sub, content, cli, entries, from_entry, range,
                   start_secs, end_secs, duration>>

\* the range check swapping the two entries where it finds them out of order
CheckRangeSwapping ==
    /\ pc = "check"
    /\ range' = IF Inverted(entries[from_entry], entries[to_entry])
                THEN [start |-> entries[to_entry].start,
                      end |-> entries[from_entry].end,
                      default_pad |-> DefaultPadRange]
                ELSE [start |-> entries[from_entry].start,
                      end |-> entries[to_entry].end,
                      default_pad |-> DefaultPadRange]
    /\ pc' = "pad"
    /\ UNCHANGED <<input, detected, ffmpeg, sub, content, cli, entries, from_entry, to_entry,
                   start_secs, end_secs, duration, err>>

\* lines 280-284: range mode, the ordering check and the range
CheckRange ==
    /\ pc = "check"
    /\ IF Inverted(entries[from_entry], entries[to_entry])
       THEN /\ err' = <<Msg("Ending dialogue appears before starting dialogue", <<>>)>>
            /\ pc' = "error"
            /\ UNCHANGED range
       ELSE /\ range' = [start |-> entries[from_entry].start,
                         end |-> entries[to_entry].end,
                         default_pad |-> DefaultPadRange]
            /\ pc' = "pad"
            /\ UNCHANGED err
    /\ UNCHANGED <<input, detected, ffmpeg, sub, content, cli, entries, from_entry, to_entry,
                   start_secs, end_secs, duration>>

\* lines 285-288: single quote mode
SingleQuote ==
    /\ pc = "mode"
    /\ ~IsSome(cli.to)
    /\ range' = [start |-> entries[from_entry].start,
                 end |-> entries[from_entry].end,
                 default_pad |-> DefaultPadSingle]
    /\ pc' = "pad"
    /\ UNCHANGED <<input, detected, ffmpeg, sub, content, cli, entries, from_entry, to_entry,
                   start_secs, end_secs, duration, err>>

\* lines 290-300
ApplyPadding ==
    /\ pc = "pad"
    /\ start_secs' = StartPadded(range.start, PadBefore(cli, range.default_pad))
    /\ end_secs' = EndPadded(range.end, PadAfter(cli, range.default_pad))
    /\ pc' = "clip"
    /\ UNCHANGED <<input, detected, ffmpeg, sub, content, cli, entries, from_entry, to_entry, range,
                   duration, err>>

\* str::parse::<f64> on a number written in digits, with a fraction of up to
\* three digits or without, in milliseconds; -1 for Err
ParseSeconds(s) ==
    LET dot   == find(s, <<".">>)
        whole == IF dot = -1 THEN s ELSE SubSeq(s, 1, dot)
        frac  == IF dot = -1 THEN <<>> ELSE SliceFrom(s, dot + 1)
        scale == CASE Len(frac) = 1 -> 100 [] Len(frac) = 2 -> 10 [] OTHER -> 1
    IN  IF /\ Len(whole) > 0
           /\ \A i \in 1..Len(whole) : IsAsciiDigit(whole[i])
           /\ \A i \in 1..Len(frac) : IsAsciiDigit(frac[i])
           /\ dot # -1 => Len(frac) \in 1..3
        THEN DecimalVal(whole) * 1000 + DecimalVal(frac) * scale
        ELSE -1

\* \d+ of the pattern of line 554
IsDigits(s) == Len(s) > 0 /\ \A i \in 1..Len(s) : IsDigit(s[i])

\* \d+(?:\.\d+)? of the pattern of line 554
IsDecimal(s) ==
    LET dot == find(s, <<".">>)
    IN  IF dot = -1 THEN IsDigits(s)
        ELSE IsDigits(SubSeq(s, 1, dot)) /\ IsDigits(SliceFrom(s, dot + 1))

\* parse_timestamp (main.rs 549-563): seconds, MM:SS or HH:MM:SS
parse_timestamp(ts) ==
    LET parts == split(ts, <<":">>)
        n     == Len(parts)
    IN  IF ParseSeconds(ts) # -1 THEN [ok |-> TRUE, secs |-> ParseSeconds(ts)]
        ELSE IF /\ n \in {2, 3}
                /\ \A k \in 1..(n - 1) : IsDigits(parts[k])
                /\ IsDecimal(parts[n])
        THEN [ok |-> TRUE,
              secs |-> (IF n = 3 THEN ParseOrZero(parts[1]) * 3600000 ELSE 0)
                       + ParseOrZero(parts[n - 1]) * 60000
                       + (IF ParseSeconds(parts[n]) # -1 THEN ParseSeconds(parts[n])
                          ELSE 0)]
        ELSE [ok |-> FALSE, msg |-> Msg("Invalid timestamp format: ", ts)]

\* lines 302-314: timestamp mode
Timestamps ==
    /\ pc = "start"
    /\ ~IsSome(cli.from)
    /\ LET start == parse_timestamp(cli.start[1])
           end   == parse_timestamp(cli.end[1])
       IN  IF ~start.ok
           THEN /\ err' = <<start.msg>>
                /\ pc' = "error"
                /\ UNCHANGED <<start_secs, end_secs>>
           ELSE IF ~end.ok
           THEN /\ err' = <<end.msg>>
                /\ pc' = "error"
                /\ UNCHANGED <<start_secs, end_secs>>
           ELSE IF end.secs <= start.secs
           THEN /\ err' = <<Msg("End time must be after start time", <<>>)>>
                /\ pc' = "error"
                /\ UNCHANGED <<start_secs, end_secs>>
           ELSE /\ start_secs' = start.secs
                /\ end_secs' = end.secs
                /\ pc' = "clip"
                /\ UNCHANGED err
    /\ UNCHANGED <<input, detected, ffmpeg, sub, content, cli, entries, from_entry,
                   to_entry, range, duration>>

\* line 316: the duration handed to the encoder
Clip ==
    /\ pc = "clip"
    /\ duration' = end_secs - start_secs
    /\ pc' = "encode"
    /\ UNCHANGED <<input, detected, ffmpeg, sub, content, cli, entries, from_entry, to_entry, range,
                   start_secs, end_secs, err>>

\* line 322
has_subs == ~cli.no_subs /\ sub # "none"

\* build_subtitle_filter (main.rs 391-400): the burn-in filter of a subtitle path
build_subtitle_filter(sub_path) ==
    IF sub_path = "none" THEN None ELSE Some("subtitles")

\* lines 350-354 and encode_gif, encode_webm, encode_mp4 (main.rs 402-547), which
\* build the filter the same way: the encoder is run from start_secs for
\* duration, with the filter of sub_path, and succeeds or fails
Encode ==
    /\ pc = "encode"
    /\ ffmpeg' = Some([ss |-> start_secs, t |-> duration,
                       subtitles |-> build_subtitle_filter(sub)])
    /\ \E status \in BOOLEAN :
          IF status
          THEN pc' = "done" /\ UNCHANGED err
          ELSE pc' = "failed" /\ err' = <<Msg("ffmpeg failed to create ", <<>>)>>
    /\ UNCHANGED <<input, detected, sub, content, cli, entries, from_entry, to_entry,
                   range, start_secs, end_secs, duration>>

Next ==
    \/ ResolveSubs
    \/ LoadSubs
    \/ FindFrom
    \/ FindTo
    \/ CheckRange
    \/ SingleQuote
    \/ Timestamps
    \/ ApplyPadding
    \/ Clip
    \/ Encode

(***************************************************************************)
(* The inputs: subtitle files, entry sequences and command lines.          *)
(***************************************************************************)
MaxBlocks == 2

MaxEntries == 2

MaxQueryLen == 3

MaxLines == 4

TwoDigits(n) == <<AsciiDigits[(n \div 10) + 1], AsciiDigits[(n % 10) + 1]>>

ThreeDigits(n) == <<AsciiDigits[(n \div 100) + 1]>> \o TwoDigits(n % 100)

\* the timecode HH:MM:SS<sep>mmm of t = <<h, m, s, ms>>
Timecode(t, sep) ==
    TwoDigits(t[1]) \o <<":">> \o TwoDigits(t[2]) \o <<":">> \o TwoDigits(t[3])
        \o <<sep>> \o ThreeDigits(t[4])

Arrow == <<" ", "-", "-", ">", " ">>

TimingLine(t1, t2) == Timecode(t1, ",") \o Arrow \o Timecode(t2, ",")

\* the timecode of a time in milliseconds
TimeOf(ms) ==
    <<ms \div 3600000, (ms \div 60000) % 60, (ms \div 1000) % 60, ms % 1000>>

\* a caption block as subtitle files hold it: index, timing, text, blank line
Block(n, e) ==
    <<AsciiDigits[n + 1]>> \o <<"\n">> \o TimingLine(TimeOf(e.start), TimeOf(e.end))
        \o <<"\n">> \o e.text \o <<"\n", "\n">>

\* the file holding the blocks of es, from index i on
RECURSIVE BlocksFrom(_, _)
BlocksFrom(es, i) ==
    IF i > Len(es) THEN <<>> ELSE Block(i, es[i]) \o BlocksFrom(es, i + 1)

FileOf(es) == BlocksFrom(es, 1)

\* all strings over chars of length at most n
Strings(chars, n) == UNION {[1..k -> chars] : k \in 0..n}

\* the entries of the clip resolution runs: a caption that lasts, one that ends
\* where that one starts, one of no length and one that ends before it starts
\* (a file may hold it), each with one of two captions
ClipSpans == {<<10000, 12500>>, <<1000, 10000>>, <<1000, 1000>>, <<12500, 10000>>}

ClipCaptions == {<<"a">>, <<"B">>}

ClipEntries ==
    {[start |-> sp[1], end |-> sp[2], text |-> t] : sp \in ClipSpans, t \in ClipCaptions}

ClipQueries == {<<"A">>, <<"b">>, <<"c">>}

ClipToQueries == {<<"a">>, <<"c">>}

\* values of --pad, --pad-before and --pad-after: none, and more than the defaults
PadValues == {0, 3000}

PadOptions == {None} \cup {Some(p) : p \in PadValues}

\* the command lines of dialogue mode: --pad conflicts with --pad-before and
\* --pad-after (main.rs 94-95); --to requires --from (main.rs 90-91); --from
\* conflicts with the two timestamps (main.rs 86)
ClipCli ==
    {c \in [start : {None}, end : {None}, subs : {None}, no_subs : {FALSE},
            from : {Some(q) : q \in ClipQueries},
            to : {None} \cup {Some(q) : q \in ClipToQueries},
            pad : PadOptions, pad_before : PadOptions, pad_after : PadOptions] :
        IsSome(c.pad) => (c.pad_before = None /\ c.pad_after = None)}

\* timestamps: seconds, MM:SS, HH:MM:SS, seconds with a fraction, and no timestamp
StampTexts ==
    {<<"9", "0">>, <<"1", ":", "3", "5">>,
     <<"0", "0", ":", "0", "1", ":", "3", "0">>, <<"9", "0", ".", "5">>, <<"x">>}

\* the command lines of timestamp mode: the two timestamps are required where
\* --from is not given (main.rs 74, 78)
StampCli ==
    [start : {Some(t) : t \in StampTexts}, end : {Some(t) : t \in StampTexts},
     subs : {None}, no_subs : {FALSE}, from : {None}, to : {None},
     pad : {None}, pad_before : {None}, pad_after : {None}]

\* a local file that is there
LocalFile == [kind |-> "file", video |-> "ok"]

\* subtitles embedded in the video, none written by yt-dlp or lying next to it
Embedded(s) == [downloaded |-> "none", embedded |-> s, adjacent |-> "none"]

\* the state main is in before it determines the start and end times
Start ==
    /\ entries = <<>>
    /\ ffmpeg = None
    /\ from_entry = 0
    /\ to_entry = 0
    /\ range = NoRange
    /\ start_secs = 0
    /\ end_secs = 0
    /\ duration = 0
    /\ err = <<>>

\* runs on a local file with the subtitles embedded in it, or none
Init ==
    /\ input = LocalFile
    /\ \/ /\ cli \in ClipCli
          /\ \/ /\ detected = Embedded("ok")
                /\ \E n \in 0..MaxBlocks : \E es \in [1..n -> ClipEntries] :
                      content = FileOf(es)
             \/ /\ detected \in {Embedded("none"), Embedded("unreadable")}
                /\ content = <<>>
       \/ /\ cli \in StampCli
          /\ detected = Embedded("none")
          /\ content = <<>>
    /\ sub = "none"
    /\ pc = "input"
    /\ Start

Spec == Init /\ [][Next]_vars

(***************************************************************************)
(* find_dialogue on its own: main after parse_srt has returned the entries *)
(* of a file whose captions are short strings over a small alphabet, with  *)
(* every query up to a length over that alphabet.                          *)
(***************************************************************************)
FindChars == {"a", "B", " "}

\* captions as parse_srt leaves them: not empty, trimmed
FindTexts ==
    {<<"a">>, <<"B">>, <<"a", "a">>, <<"a", "B">>, <<"B", "a">>, <<"B", "B">>,
     <<"a", " ", "B">>, <<"B", " ", "a">>}

\* four words of which a caption may hold one only; a query in upper case; four
\* words of which a caption may hold two; five of which a caption may hold one
ExtraQueries ==
    {<<"B", " ", "B", " ", "B", " ", "a">>,
     <<"a", "a", " ", "B", " ", "B">>,
     <<"A", " ", "B">>,
     <<"a", " ", "a", " ", "B", " ", "B">>,
     <<"B", " ", "B", " ", "B", " ", "B", " ", "a">>}

FindQueries == Strings(FindChars, MaxQueryLen) \cup ExtraQueries

NoPadCli(q) ==
    [start |-> None, end |-> None, subs |-> None, no_subs |-> FALSE,
     from |-> Some(q), to |-> None, pad |-> None, pad_before |-> None, pad_after |-> None]

InitFind ==
    /\ input = LocalFile
    /\ detected = Embedded("ok")
    /\ ffmpeg = None
    /\ sub = "ok"
    /\ \E q \in FindQueries : cli = NoPadCli(q)
    /\ \E n \in 0..MaxEntries : \E ts \in [1..n -> FindTexts] :
          /\ entries = [i \in 1..n |->
                           [start |-> 1000 * i, end |-> 1000 * i + 500, text |-> ts[i]]]
          /\ content = FileOf(entries)
    /\ pc = "find_from"
    /\ from_entry = 0
    /\ to_entry = 0
    /\ range = NoRange
    /\ start_secs = 0
    /\ end_secs = 0
    /\ duration = 0
    /\ err = <<>>

SpecFind == InitFind /\ [][FindFrom]_vars

(***************************************************************************)
(* parse_srt on its own: files made of a few lines, each an index, a       *)
(* timing line, a caption, a blank line or a line of whitespace.           *)
(***************************************************************************)
\* 01:02:03.004-->00:00:01,000: dots, no spaces, and an end before the start
TightTimingLine ==
    Timecode(<<1, 2, 3, 4>>, ".") \o <<"-", "-", ">">> \o Timecode(<<0, 0, 1, 0>>, ",")

\* a caption whose opening tag has another opening tag inside it: <<i>i>a
SplitTagLine == <<"<", "<", "i", ">", "i", ">", "a">>

ParseLines ==
    {<<"1">>,
     TimingLine(<<0, 0, 10, 0>>, <<0, 0, 12, 500>>),
     TightTimingLine,
     <<>>,
     <<" ">>,
     <<"a">>,
     <<"<", "i", ">", "a", "<", "/", "i", ">">>}

\* the lines of ls from index i on, each but the last ended by a line break
RECURSIVE FileLines(_, _)
FileLines(ls, i) ==
    IF i > Len(ls) THEN <<>>
    ELSE IF i = Len(ls) THEN ls[i]
    ELSE ls[i] \o <<"\n">> \o FileLines(ls, i + 1)

\* 99:59:59.999 --> 01:02:03.004: dots, and the greatest timecode
LateTimingLine ==
    Timecode(<<99, 59, 59, 999>>, ".") \o Arrow \o Timecode(<<1, 2, 3, 4>>, ".")

\* blocks, as their lines: index, timing line and caption; a timing line and a
\* caption of two lines; index and timing line only; no timing line; a caption
\* of tags only; a caption with a tag inside a tag
CaptionBlocks ==
    {<<<<"1">>, TimingLine(<<0, 0, 10, 0>>, <<0, 0, 12, 500>>), <<"a">>>>,
     <<LateTimingLine, <<"a">>, <<"B">>>>,
     <<<<"1">>, TimingLine(<<0, 0, 10, 0>>, <<0, 0, 12, 500>>)>>,
     <<<<"1">>, <<"a">>, <<"a">>>>,
     <<<<"1">>, TimingLine(<<0, 0, 10, 0>>, <<0, 0, 12, 500>>),
       <<"<", "b", ">", "<", "/", "b", ">">>>>,
     <<<<"1">>, TimingLine(<<0, 0, 10, 0>>, <<0, 0, 12, 500>>), SplitTagLine>>}

\* the line endings of a file: "\n" or "\r\n"
LineEndings == {<<"\n">>, <<"\r", "\n">>}

\* the lines of ls from index i on, each ended by eol
RECURSIVE Terminated(_, _, _)
Terminated(ls, i, eol) ==
    IF i > Len(ls) THEN <<>> ELSE ls[i] \o eol \o Terminated(ls, i + 1, eol)

\* the file of the blocks of bs from index i on, a blank line between two blocks
RECURSIVE BlockFile(_, _, _)
BlockFile(bs, i, eol) ==
    IF i > Len(bs) THEN <<>>
    ELSE IF i = Len(bs) THEN Terminated(bs[i], 1, eol)
    ELSE Terminated(bs[i], 1, eol) \o eol \o BlockFile(bs, i + 1, eol)

InitParse ==
    /\ cli = NoPadCli(<<"a">>)
    /\ input = LocalFile
    /\ \/ /\ sub = "ok"
          /\ \E n \in 0..MaxLines : \E ls \in [1..n -> ParseLines] :
                \E last \in {<<>>, <<"\n">>} : content = FileLines(ls, 1) \o last
       \/ /\ sub = "ok"
          /\ \E n \in 1..MaxBlocks : \E bs \in [1..n -> CaptionBlocks] :
                \E eol \in LineEndings : content = BlockFile(bs, 1, eol)
       \/ /\ sub = "unreadable"
          /\ content = <<>>
    /\ detected = Embedded(sub)
    /\ pc = "start"
    /\ Start

SpecParse == InitParse /\ [][LoadSubs]_vars

(***************************************************************************)
(* main on every kind of input, with and without --subs, --no-subs and     *)
(* --from, on one subtitle file.                                           *)
(***************************************************************************)
Inputs == [kind : {"youtube", "url", "file"}, video : {"ok", "missing"}]

\* no subtitles; written by yt-dlp; embedded; in a file next to the video
SubsFound ==
    {Embedded("none"),
     [downloaded |-> "ok", embedded |-> "none", adjacent |-> "none"],
     Embedded("ok"),
     [downloaded |-> "none", embedded |-> "none", adjacent |-> "ok"]}

SubsOptions == {None, Some("ok"), Some("missing")}

SubsCli ==
    {c \in [start : {None, Some(<<"9", "0">>)}, end : {None, Some(<<"1", ":", "3", "5">>)},
            subs : SubsOptions, no_subs : BOOLEAN,
            from : {None, Some(<<"a">>)}, to : {None, Some(<<"B">>)},
            pad : {None}, pad_before : {None}, pad_after : {None}] :
        /\ IsSome(c.to) => IsSome(c.from)
        /\ IsSome(c.start) <=> ~IsSome(c.from)
        /\ IsSome(c.end) <=> ~IsSome(c.from)}

\* the subtitle file of these runs: two captions, the second before the first
SubsFile ==
    FileOf(<<[start |-> 10000, end |-> 12500, text |-> <<"a">>],
             [start |-> 1000, end |-> 1000, text |-> <<"B">>]>>)

InitSubs ==
    /\ input \in Inputs
    /\ detected \in SubsFound
    /\ cli \in SubsCli
    /\ content = SubsFile
    /\ sub = "none"
    /\ pc = "input"
    /\ Start

SpecSubs == InitSubs /\ [][Next]_vars

(***************************************************************************)
(* The tiers of find_dialogue, stated on one entry and a query.            *)
(***************************************************************************)
\* the words of a query
WordsOf(q) == split_whitespace(to_lowercase(q))

\* tier 1: the lowercased text holds the lowercased query
ExactTier(e, q) ==
    \E i \in 0..Len(e.text) :
        /\ i + Len(q) <= Len(e.text)
        /\ \A k \in 1..Len(q) : LowerChar(e.text[i + k]) = LowerChar(q[k])

\* tier 2: the lowercased text holds every word of the query, each after the
\* end of the one before: ps[k] is the 0-based offset of word k
OrderedTier(e, q) ==
    LET ws == WordsOf(q)
        t  == to_lowercase(e.text)
    IN  \E ps \in [1..Len(ws) -> 0..Len(t)] :
            \A k \in 1..Len(ws) :
                /\ ps[k] + Len(ws[k]) <= Len(t)
                /\ SubSeq(t, ps[k] + 1, ps[k] + Len(ws[k])) = ws[k]
                /\ k > 1 => ps[k] >= ps[k - 1] + Len(ws[k - 1])

\* the number of words of the query (with repetitions) the lowercased text holds
WordCount(e, q) ==
    Cardinality({k \in 1..Len(WordsOf(q)) : contains(to_lowercase(e.text), WordsOf(q)[k])})

\* tier 3: at least one word, and at least half of the words rounded down
FuzzyTier(e, q) ==
    /\ WordCount(e, q) >= 1
    /\ WordCount(e, q) >= Len(WordsOf(q)) \div 2

\* the indices of the entries of es that satisfy each tier; tier 3 is accepted on
\* the best entry only, that is when some entry holds enough words
ExactMatches(es, q) == {i \in 1..Len(es) : ExactTier(es[i], q)}

OrderedMatches(es, q) == {i \in 1..Len(es) : OrderedTier(es[i], q)}

FuzzyMatches(es, q) == {i \in 1..Len(es) : FuzzyTier(es[i], q)}

\* the lookup of `from` has been made
FromLookedUp ==
    /\ IsSome(cli.from)
    /\ pc \notin {"input", "start", "find_from", "panic"}
    /\ sub = "ok"

FromQuery == cli.from[1]

(***************************************************************************)
(* C1.  Tier ordering of find_dialogue: when some entry matches the query  *)
(* by exact substring the returned entry is such a match, even when an     *)
(* earlier entry satisfies the ordered-word or the fuzzy tier; when none   *)
(* does and some entry matches the words in order, the returned entry is   *)
(* such a match, even when an earlier entry satisfies the fuzzy tier.      *)
(***************************************************************************)
C1_TierOrdering ==
    FromLookedUp =>
        /\ ExactMatches(entries, FromQuery) # {} =>
              /\ from_entry \in 1..Len(entries)
              /\ ExactTier(entries[from_entry], FromQuery)
        /\ (ExactMatches(entries, FromQuery) = {}
                /\ OrderedMatches(entries, FromQuery) # {}) =>
              /\ from_entry \in 1..Len(entries)
              /\ OrderedTier(entries[from_entry], FromQuery)

\* the second entry is returned for its exact match, past a first entry that
\* holds the words in order, and so satisfies the fuzzy tier too
C1_Witness ==
    /\ pc = "mode"
    /\ from_entry = 2
    /\ ExactTier(entries[2], FromQuery)
    /\ ~ExactTier(entries[1], FromQuery)
    /\ OrderedTier(entries[1], FromQuery)
    /\ FuzzyTier(entries[1], FromQuery)
    /\ Len(WordsOf(FromQuery)) = 2

(***************************************************************************)
(* C2.  Tier 1: when some entry's lowercased text contains the lowercased  *)
(* query, the result is the entry of least index that does.                *)
(***************************************************************************)
C2_FirstExactMatch ==
    (FromLookedUp /\ ExactMatches(entries, FromQuery) # {}) =>
        /\ pc = "mode"
        /\ from_entry \in 1..Len(entries)
        /\ ExactTier(entries[from_entry], FromQuery)
        /\ \A j \in 1..(from_entry - 1) : ~ExactTier(entries[j], FromQuery)

\* two entries match, in another case than the query's; the first is returned
C2_Witness ==
    /\ pc = "mode"
    /\ Len(entries) = 2
    /\ from_entry = 1
    /\ ExactTier(entries[1], FromQuery)
    /\ ExactTier(entries[2], FromQuery)
    /\ ~contains(entries[1].text, FromQuery)
    /\ Len(FromQuery) > 0

(***************************************************************************)
(* C3.  find_dialogue fails exactly when no entry satisfies tier 1, tier 2 *)
(* or the accepted tier 3, so always on an empty sequence; the error       *)
(* carries the query as the caller wrote it; otherwise the result is one   *)
(* entry of the sequence.                                                  *)
(***************************************************************************)
C3_NotFoundExactly ==
    FromLookedUp =>
        /\ pc = "error" <=>
              ~(\/ ExactMatches(entries, FromQuery) # {}
                \/ OrderedMatches(entries, FromQuery) # {}
                \/ FuzzyMatches(entries, FromQuery) # {})
        /\ Len(entries) = 0 => pc = "error"
        /\ pc = "error" =>
              /\ Len(err) = 2
              /\ err[1] = Msg("Could not find starting dialogue: ", FromQuery)
              /\ err[2] = Msg("Could not find dialogue: ", FromQuery)
              /\ from_entry = 0
        /\ pc # "error" => from_entry \in 1..Len(entries)

\* a query of four words in upper case fails on an entry that holds one of them
C3_Witness ==
    /\ pc = "error"
    /\ Len(entries) > 0
    /\ FromQuery # to_lowercase(FromQuery)
    /\ Len(WordsOf(FromQuery)) = 4
    /\ \E i \in 1..Len(entries) : WordCount(entries[i], FromQuery) = 1

(***************************************************************************)
(* The cascade as a whole, stated on the sequence: the index of the entry  *)
(* the three tiers select, 0 when none does.                               *)
(***************************************************************************)
\* the entries holding the most words of the query
MostWords(es, q) ==
    {i \in 1..Len(es) : \A j \in 1..Len(es) : WordCount(es[j], q) <= WordCount(es[i], q)}

Cascade(es, q) ==
    IF ExactMatches(es, q) # {} THEN Least(ExactMatches(es, q))
    ELSE IF OrderedMatches(es, q) # {} THEN Least(OrderedMatches(es, q))
    ELSE IF FuzzyMatches(es, q) # {} THEN Least(MostWords(es, q))
    ELSE 0

InvalidRange == <<Msg("Ending dialogue appears before starting dialogue", <<>>)>>

\* range mode, with both entries matched and the ordering check made
RangeChecked == to_entry # 0 /\ pc # "check"

FromStart == entries[from_entry].start

ToStart == entries[to_entry].start

ToEnd == entries[to_entry].end

(***************************************************************************)
(* C4.  Range mode: `from` and `to` are each resolved by the full cascade  *)
(* over the whole sequence, independently; resolution fails with the       *)
(* invalid-range error exactly when to_entry.end < from_entry.start, and   *)
(* otherwise the unpadded range is [from_entry.start, to_entry.end].       *)
(***************************************************************************)
C4_RangeMode ==
    /\ (FromLookedUp /\ IsSome(cli.to) /\ pc # "mode") =>
          /\ from_entry = Cascade(entries, FromQuery)
          /\ from_entry # 0 => to_entry = Cascade(entries, cli.to[1])
          /\ to_entry = 0 => pc = "error" /\ err # InvalidRange
    /\ RangeChecked =>
          IF ToEnd < FromStart
          THEN pc = "error" /\ err = InvalidRange /\ range = NoRange
          ELSE /\ pc \in {"pad", "clip", "encode", "done", "failed"}
               /\ err = <<>> \/ pc = "failed"
               /\ range.start = FromStart
               /\ range.end = ToEnd

\* `to` matched an entry before the one `from` matched, ending where that one
\* starts: the range is accepted
C4_Witness ==
    /\ pc = "pad"
    /\ to_entry # 0
    /\ to_entry < from_entry
    /\ ToEnd = FromStart
    /\ range.start = FromStart
    /\ range.end = ToEnd

(***************************************************************************)
(* C5.  Range inversion rejection.  As claimed: whenever the matched `to`  *)
(* entry starts strictly before the matched `from` entry, range resolution *)
(* fails with the invalid-range error, also when the two entries overlap.  *)
(***************************************************************************)
C5_RejectsEarlierStart ==
    (RangeChecked /\ ToStart < FromStart) => (pc = "error" /\ err = InvalidRange)

(***************************************************************************)
(* C5, amended.  Whenever the matched `to` entry ends strictly before the  *)
(* matched `from` entry starts, range resolution fails with the            *)
(* invalid-range error: no range is returned, nothing is swapped.  When    *)
(* the `to` entry starts before the `from` entry and ends at or after its  *)
(* start, the range [from_entry.start, to_entry.end] is returned.          *)
(***************************************************************************)
C5_RejectsEarlierEnd ==
    /\ (RangeChecked /\ ToEnd < FromStart) =>
          /\ pc = "error"
          /\ err = InvalidRange
          /\ range = NoRange
          /\ start_secs = 0 /\ end_secs = 0 /\ duration = 0
    /\ (RangeChecked /\ ToStart < FromStart /\ FromStart <= ToEnd) =>
          /\ pc # "error"
          /\ range.start = FromStart
          /\ range.end = ToEnd

\* the `to` entry ends before the `from` entry starts: the run has failed
C5_Witness ==
    /\ RangeChecked
    /\ ToEnd < FromStart
    /\ pc = "error"
    /\ err = InvalidRange

(***************************************************************************)
(* C6.  ResolvedRange invariant: every successful dialogue-mode resolution *)
(* gives end_seconds > start_seconds, so the duration handed to the        *)
(* transcoder is strictly positive.                                        *)
(***************************************************************************)
C6_PositiveDuration ==
    /\ pc \in {"clip", "encode"} => end_secs > start_secs
    /\ pc = "encode" => duration > 0

(***************************************************************************)
(* C7.  Padding: padded_start = max(0, range.start - pad_before), never    *)
(* negative and 0 whenever range.start - pad_before < 0; padded_end =      *)
(* range.end + pad_after, with no upper clamp.                             *)
(***************************************************************************)
C7_Padding ==
    (IsSome(cli.from) /\ pc \in {"clip", "encode"}) =>
        LET pad_before == PadBefore(cli, range.default_pad)
            pad_after  == PadAfter(cli, range.default_pad)
        IN  /\ start_secs >= 0
            /\ range.start - pad_before < 0 => start_secs = 0
            /\ range.start - pad_before >= 0 => start_secs = range.start - pad_before
            /\ end_secs = range.end + pad_after

\* a start of 1 s with more padding before it: clamped to 0
C7_Witness ==
    /\ pc = "clip"
    /\ range.start > 0
    /\ range.start - PadBefore(cli, range.default_pad) < 0
    /\ start_secs = 0
    /\ end_secs > range.end

C9_ParseTotal ==
    pc # "start" =>
        IF sub = "ok"
        THEN pc = "find_from" /\ err = <<>>
        ELSE pc = "error" /\ err = <<Msg("Failed to read subtitle file: ", <<>>)>>

\* a file of one block of three lines or more whose last line is its timing line
C9_Witness ==
    /\ pc = "find_from"
    /\ Len(entries) = 0
    /\ Len(split(content, <<"\n", "\n">>)) = 1
    /\ Len(lines(content)) >= 3
    /\ TimestampLine(lines(content), 1) = Len(lines(content))

(***************************************************************************)
(* C10.  SubtitleEntry timing invariant: every entry parse_srt returns has *)
(* start >= 0 and end >= start.                                            *)
(***************************************************************************)
C10_EntryTiming ==
    \A i \in 1..Len(entries) :
        /\ entries[i].start >= 0
        /\ entries[i].end >= entries[i].start

(***************************************************************************)
(* C11.  Tag stripping: the text of every entry parse_srt returns holds    *)
(* none of the literals <i>, </i>, <b>, </b>, <u>, </u>, also when the     *)
(* caption holds a tag whose characters are split by another tag; so the   *)
(* stripping step applied to the text of an entry leaves it unchanged.     *)
(***************************************************************************)
C11_TagsStripped ==
    \A i \in 1..Len(entries) :
        /\ \A tag \in EmphasisTags : ~contains(entries[i].text, tag)
        /\ StripTags(entries[i].text) = entries[i].text

\* the timecodes <<h, m, s, ms>> of the timing lines of the files
ClockTimes ==
    {<<0, 0, 10, 0>>, <<0, 0, 12, 500>>, <<1, 2, 3, 4>>, <<0, 0, 1, 0>>,
     <<99, 59, 59, 999>>}

\* the lines of a file that hold the arrow of a timing line
ArrowLines(text) ==
    {l \in {lines(text)[i] : i \in 1..Len(lines(text))} : contains(l, <<"-", "-", ">">>)}

(***************************************************************************)
(* C12.  Timing conversion: where the timing lines of a file are the line  *)
(* HH:MM:SS,mmm --> HH:MM:SS,mmm, with a comma or a dot before the         *)
(* milliseconds of either timecode, every entry has start = H*3600 + M*60  *)
(* + S + ms/1000 of the first timecode and end = the same of the second,   *)
(* in whole milliseconds; 00:00:10,000 --> 00:00:12,500 gives 10.0, 12.5.  *)
(***************************************************************************)
C12_TimingConversion ==
    (pc = "find_from" /\ Len(entries) > 0 /\ Cardinality(ArrowLines(content)) = 1) =>
        LET line == CHOOSE l \in ArrowLines(content) : TRUE
        IN  /\ \A t1 \in ClockTimes, t2 \in ClockTimes :
               \A s1 \in {",", "."}, s2 \in {",", "."} :
               \A arrow \in {Arrow, <<"-", "-", ">">>} :
                  line = Timecode(t1, s1) \o arrow \o Timecode(t2, s2) =>
                      \A i \in 1..Len(entries) :
                          /\ entries[i].start
                                = t1[1] * 3600000 + t1[2] * 60000 + t1[3] * 1000 + t1[4]
                          /\ entries[i].end
                                = t2[1] * 3600000 + t2[2] * 60000 + t2[3] * 1000 + t2[4]
            /\ line = TimingLine(<<0, 0, 10, 0>>, <<0, 0, 12, 500>>) =>
                  \A i \in 1..Len(entries) :
                      entries[i].start = 10000 /\ entries[i].end = 12500

\* the line 01:02:03.004-->00:00:01,000 has given an entry from 3723.004 to 1.0
C12_Witness ==
    /\ pc = "find_from"
    /\ ArrowLines(content) = {TightTimingLine}
    /\ Len(entries) = 1
    /\ entries[1].start = 3723004
    /\ entries[1].end = 1000

\* the greatest number of words of the query that one entry holds, 0 with no entry
BestCount(es, q) == Greatest({WordCount(es[i], q) : i \in 1..Len(es)} \cup {0})

(***************************************************************************)
(* C13.  Fuzzy tier 3: when no entry matches tier 1 or tier 2, with n the  *)
(* number of words of the query and c(e) the number of them the lowercased *)
(* text of e holds, the lookup returns the entry of least index that       *)
(* attains the maximum of c if that maximum is at least 1 and at least     *)
(* floor(n/2), and fails with not-found otherwise: four words with a best  *)
(* entry holding two succeed, five words with a best entry holding one     *)
(* fail.                                                                   *)
(***************************************************************************)
C13_FuzzyTier ==
    (/\ FromLookedUp
     /\ ExactMatches(entries, FromQuery) = {}
     /\ OrderedMatches(entries, FromQuery) = {}) =>
        LET n    == Len(WordsOf(FromQuery))
            most == BestCount(entries, FromQuery)
        IN  /\ IF most >= 1 /\ most >= n \div 2
               THEN /\ pc = "mode"
                    /\ from_entry \in 1..Len(entries)
                    /\ WordCount(entries[from_entry], FromQuery) = most
                    /\ \A j \in 1..(from_entry - 1) :
                          WordCount(entries[j], FromQuery) < most
               ELSE /\ pc = "error"
                    /\ err[Len(err)] = Msg("Could not find dialogue: ", FromQuery)
            /\ (n = 4 /\ most = 2) => pc = "mode"
            /\ (n = 5 /\ most = 1) => pc = "error"

\* four words, two entries that hold two of them each: the first is returned
C13_Witness ==
    /\ pc = "mode"
    /\ ExactMatches(entries, FromQuery) = {}
    /\ OrderedMatches(entries, FromQuery) = {}
    /\ Len(WordsOf(FromQuery)) = 4
    /\ Len(entries) = 2
    /\ WordCount(entries[1], FromQuery) = 2
    /\ WordCount(entries[2], FromQuery) = 2
    /\ from_entry = 1

\* the lowercased text holds every word of the query at offsets that do not
\* decrease, a word being free to start inside the match of the one before
OverlapTier(e, q) ==
    LET ws == WordsOf(q)
        t  == to_lowercase(e.text)
    IN  \E ps \in [1..Len(ws) -> 0..Len(t)] :
            \A k \in 1..Len(ws) :
                /\ ps[k] + Len(ws[k]) <= Len(t)
                /\ SubSeq(t, ps[k] + 1, ps[k] + Len(ws[k])) = ws[k]
                /\ k > 1 => ps[k] >= ps[k - 1]

OverlapMatches(es, q) == {i \in 1..Len(es) : OverlapTier(es[i], q)}

(***************************************************************************)
(* C14.  Tier 2 as claimed: when no entry matches tier 1, the result is    *)
(* the entry of least index in whose lowercased text every word of the     *)
(* query is found, in query order, at or after the match position of the   *)
(* word before, matches being allowed to overlap.                          *)
(***************************************************************************)
C14_OverlappingWords ==
    (/\ FromLookedUp
     /\ ExactMatches(entries, FromQuery) = {}
     /\ OverlapMatches(entries, FromQuery) # {}) =>
        /\ pc = "mode"
        /\ from_entry = Least(OverlapMatches(entries, FromQuery))

(***************************************************************************)
(* C14, amended.  When no entry matches tier 1 and some entry holds every  *)
(* word of the query, in query order, each starting at or after the end of *)
(* the match of the word before, the result is the entry of least index    *)
(* that does; an entry that holds the words only with overlapping matches  *)
(* is passed over at this tier.                                            *)
(***************************************************************************)
C14_OrderedWords ==
    (/\ FromLookedUp
     /\ ExactMatches(entries, FromQuery) = {}
     /\ OrderedMatches(entries, FromQuery) # {}) =>
        /\ pc = "mode"
        /\ from_entry = Least(OrderedMatches(entries, FromQuery))

\* the first entry holds the two words of the query only at the same place; the
\* second, which holds them one after the other, is returned
C14_Witness ==
    /\ pc = "mode"
    /\ Len(entries) = 2
    /\ Len(WordsOf(FromQuery)) = 2
    /\ ExactMatches(entries, FromQuery) = {}
    /\ OverlapTier(entries[1], FromQuery)
    /\ ~OrderedTier(entries[1], FromQuery)
    /\ OrderedTier(entries[2], FromQuery)
    /\ from_entry = 2

(***************************************************************************)
(* C15.  --no-subs: in every run with --no-subs, on every kind of input,   *)
(* with or without --subs and --from, the encoder is run without the       *)
(* caption burn-in filter: the subtitle path handed to the encoder is      *)
(* absent whenever has_subs is false.                                      *)
(***************************************************************************)
C15_NoSubsNoBurnIn ==
    IsSome(ffmpeg) =>
        /\ cli.no_subs => ffmpeg[1].subtitles = None
        /\ ~has_subs => ffmpeg[1].subtitles = None

\* a text with "\n" for every line ending
LfText(text) == FileLines(lines(text), 1)

\* the blocks of a text, as their lines, split at every two consecutive line
\* breaks, a line break being "\n" or "\r\n"
BlocksOf(text) ==
    LET bs == split(LfText(text), <<"\n", "\n">>)
    IN  [k \in 1..Len(bs) |-> lines(bs[k])]

\* the caption of a block: the lines strictly after its first timing line
CaptionOf(ls) == CaptionText(SubSeq(ls, TimestampLine(ls, 1) + 1, Len(ls)))

\* the block gives an entry: three lines or more, a timing line, a caption
Yields(ls) == Len(ls) >= 3 /\ TimestampLine(ls, 1) # 0 /\ CaptionOf(ls) # <<>>

\* the entry of a block that gives one
EntryOf(ls) ==
    LET caps == captures(ls[TimestampLine(ls, 1)])
    IN  [start |-> parse_srt_time(caps[1], caps[2], caps[3], caps[4]),
         end   |-> parse_srt_time(caps[5], caps[6], caps[7], caps[8]),
         text  |-> CaptionOf(ls)]

\* the i-th element of a set of indices, in increasing order
Nth(S, i) == CHOOSE k \in S : Cardinality({j \in S : j < k}) = i - 1

(***************************************************************************)
(* C16.  Block handling: the input is split into blocks at every two       *)
(* consecutive line breaks; a block of fewer than 3 lines or with no       *)
(* timing line gives no entry; otherwise its first timing line, at any     *)
(* line position, gives the times and exactly the lines strictly after it  *)
(* the caption.  A block gives at most one entry and the entries are in    *)
(* the order of their blocks, whatever their times.                        *)
(***************************************************************************)
C16_Blocks ==
    pc = "find_from" =>
        LET bs   == BlocksOf(content)
            good == {k \in 1..Len(bs) : Yields(bs[k])}
        IN  /\ Len(entries) = Cardinality(good)
            /\ \A i \in 1..Len(entries) : entries[i] = EntryOf(bs[Nth(good, i)])

\* the line is made of whitespace and emphasis tags only, or is empty
RECURSIVE OnlyTags(_)
OnlyTags(l) ==
    \/ Len(l) = 0
    \/ IsWhite(l[1]) /\ OnlyTags(Tail(l))
    \/ \E tag \in EmphasisTags :
          /\ Len(tag) <= Len(l)
          /\ SubSeq(l, 1, Len(tag)) = tag
          /\ OnlyTags(SliceFrom(l, Len(tag)))

\* the blocks of the text that have, after their first timing line, a line that
\* is not made of whitespace and emphasis tags only
Captioned(text) ==
    LET bs == split(text, <<"\n", "\n">>)
    IN  {k \in 1..Len(bs) :
            LET ls == lines(bs[k])
                ts == TimestampLine(ls, 1)
            IN  ts # 0 /\ \E j \in (ts + 1)..Len(ls) : ~OnlyTags(ls[j])}

(***************************************************************************)
(* C17.  Entry text: the text of every entry parse_srt returns is not      *)
(* empty, neither starts nor ends with whitespace and holds no line break, *)
(* the caption lines being joined with single spaces; a block whose        *)
(* caption lines are empty, of whitespace only or of emphasis tags only    *)
(* gives no entry.                                                         *)
(***************************************************************************)
C17_EntryText ==
    pc = "find_from" =>
        /\ \A i \in 1..Len(entries) :
              LET text == entries[i].text
              IN  /\ Len(text) > 0
                  /\ ~IsWhite(text[1])
                  /\ ~IsWhite(text[Len(text)])
                  /\ ~contains(text, <<"\n">>)
        /\ Len(entries) <= Cardinality(Captioned(content))

\* two blocks, a caption of two lines and a caption of tags only: one entry,
\* the two lines joined with a space
C17_Witness ==
    /\ pc = "find_from"
    /\ Len(split(content, <<"\n", "\n">>)) = 2
    /\ contains(content, <<"<", "b", ">", "<", "/", "b", ">">>)
    /\ Cardinality(Captioned(content)) = 1
    /\ Len(entries) = 1
    /\ entries[1].text = <<"a", " ", "B">>

\* how far main has come: every step of main is after the ones before it, and
\* main returns at "done", "error", "failed" and "panic"
Rank(p) ==
    CASE p = "input" -> 0 [] p = "start" -> 1 [] p = "find_from" -> 2
      [] p = "mode" -> 3 [] p = "check" -> 4 [] p = "pad" -> 5
      [] p = "clip" -> 6 [] p = "encode" -> 7 [] OTHER -> 8

\* main has left the position p behind
Past(p) == Rank(pc) > Rank(p)

\* main has returned an error and the encoder was not run
FailedEarly == pc = "error" /\ err # <<>> /\ ffmpeg = None

\* no range, no padded times, no duration
NothingResolved ==
    range = NoRange /\ start_secs = 0 /\ end_secs = 0 /\ duration = 0

(***************************************************************************)
(* C18.  No partial result and no retry in dialogue mode: where the        *)
(* subtitle source is missing or unreadable, the `from` lookup fails, the  *)
(* `to` lookup fails or the range check fails, the run ends with an error, *)
(* the encoder is never run and no later step of the resolution is made    *)
(* (no `to` lookup after a failed `from` lookup); main only moves forward, *)
(* so each lookup is made at most once, and the encoder is run once at     *)
(* most and only after a range has been resolved.                          *)
(***************************************************************************)
C18_NoPartialResult ==
    /\ [](IsSome(cli.from) =>
            /\ (Past("start") /\ sub # "ok") =>
                  /\ FailedEarly /\ NothingResolved
                  /\ entries = <<>> /\ from_entry = 0 /\ to_entry = 0
            /\ (Past("find_from") /\ sub = "ok"
                    /\ Cascade(entries, FromQuery) = 0) =>
                  /\ FailedEarly /\ NothingResolved
                  /\ from_entry = 0 /\ to_entry = 0
            /\ (Past("mode") /\ sub = "ok" /\ IsSome(cli.to)
                    /\ Cascade(entries, FromQuery) # 0
                    /\ Cascade(entries, cli.to[1]) = 0) =>
                  /\ FailedEarly /\ NothingResolved
                  /\ to_entry = 0
            /\ (Past("check") /\ to_entry # 0 /\ ToEnd < FromStart) =>
                  FailedEarly /\ NothingResolved
            /\ IsSome(ffmpeg) =>
                  /\ range # NoRange
                  /\ from_entry # 0
                  /\ IsSome(cli.to) => to_entry # 0)
    /\ [][/\ Rank(pc') > Rank(pc)
          /\ ffmpeg' # ffmpeg => ffmpeg = None
          /\ from_entry' # from_entry => (pc = "find_from" /\ from_entry = 0)
          /\ to_entry' # to_entry => (pc = "mode" /\ to_entry = 0)]_vars

\* the `from` lookup has found an entry and the `to` lookup none: the run has
\* ended with an error, with no range and no call of the encoder
C18_Witness ==
    /\ pc = "error"
    /\ IsSome(cli.to)
    /\ from_entry # 0
    /\ Cascade(entries, cli.to[1]) = 0
    /\ to_entry = 0
    /\ NothingResolved
    /\ ffmpeg = None

\* the values formatted into the last error of the chain main returns
ErrorValues == {err[Len(err)].arg[k] : k \in 1..Len(err[Len(err)].arg)}

(***************************************************************************)
(* C19.  The invalid-range error, raised when the queries of range mode    *)
(* resolve to entries out of order, carries the timings of both matched    *)
(* entries: the start and end of the `from` entry and of the `to` entry.   *)
(***************************************************************************)
C19_RangeErrorTimings ==
    (RangeChecked /\ pc = "error") =>
        {FromStart, entries[from_entry].end, ToStart, ToEnd} \subseteq ErrorValues

(***************************************************************************)
(* C20.  For every entry sequence and every query of one word or more, the *)
(* entry find_dialogue returns, through whichever tier, holds at least one *)
(* word of the query as a substring, whatever the case: no entry that      *)
(* shares no word with the query is returned.                              *)
(***************************************************************************)
C20_SharesWord ==
    (FromLookedUp /\ pc = "mode" /\ Len(WordsOf(FromQuery)) >= 1) =>
        \E k \in 1..Len(WordsOf(FromQuery)) :
            \E i \in 0..Len(entries[from_entry].text) :
                /\ i + Len(WordsOf(FromQuery)[k]) <= Len(entries[from_entry].text)
                /\ \A j \in 1..Len(WordsOf(FromQuery)[k]) :
                      LowerChar(entries[from_entry].text[i + j]) = WordsOf(FromQuery)[k][j]

\* an entry returned by the fuzzy tier that holds one word of the query, written
\* in the other case, and not the others
C20_Witness ==
    /\ pc = "mode"
    /\ ExactMatches(entries, FromQuery) = {}
    /\ OrderedMatches(entries, FromQuery) = {}
    /\ Len(WordsOf(FromQuery)) >= 2
    /\ WordCount(entries[from_entry], FromQuery) = 1
    /\ \A k \in 1..Len(WordsOf(FromQuery)) :
          ~contains(entries[from_entry].text, WordsOf(FromQuery)[k])

\* the entries whose text, as it is written, holds the query as it is written
LiteralMatches(es, q) ==
    {i \in 1..Len(es) :
        \E p \in 0..(Len(es[i].text) - Len(q)) :
            \A k \in 1..Len(q) : es[i].text[p + k] = q[k]}

\* a query with no word: empty, or of whitespace only
NoWords(q) == \A k \in 1..Len(q) : IsWhite(q[k])

(***************************************************************************)
(* C21.  For a query with no word (the empty string, or whitespace only)   *)
(* and a sequence of one entry or more, find_dialogue never fails with     *)
(* not-found: it returns the first entry whose text contains the query     *)
(* literally, and the first entry of the sequence when no text does; the   *)
(* empty query always returns the first entry.                             *)
(***************************************************************************)
C21_NoWordQuery ==
    (/\ IsSome(cli.from)
     /\ sub = "ok"
     /\ pc \notin {"input", "start", "find_from", "panic"}
     /\ NoWords(FromQuery)
     /\ Len(entries) >= 1) =>
        /\ pc # "error"
        /\ err = <<>>
        /\ from_entry = (IF LiteralMatches(entries, FromQuery) # {}
                         THEN Least(LiteralMatches(entries, FromQuery))
                         ELSE 1)
        /\ (FromQuery = <<>> => from_entry = 1)

\* a query of two blanks that no caption contains, answered with the first entry
\* of two
C21_Witness ==
    /\ IsSome(cli.from)
    /\ pc = "mode"
    /\ Len(FromQuery) = 2
    /\ NoWords(FromQuery)
    /\ Len(entries) = 2
    /\ LiteralMatches(entries, FromQuery) = {}
    /\ from_entry = 1

====
